---- MODULE Spec2Model ----
(***************************************************************************)
(* numenc: encoding of fixed-width numbers as byte strings whose unsigned  *)
(* lexicographic order is the numeric order (encoder_decoder.cpp).         *)
(*                                                                         *)
(* Representation.  A Python object is a record [type, neg, val]:          *)
(*   int    neg = sign, val = magnitude in base 256, most significant      *)
(*          digit first, no leading zero (arbitrary precision);            *)
(*   float  val = IEEE-754 bit pattern, most significant byte first        *)
(*          (4 bytes for the float32 codec, 8 for the float64 codec);      *)
(*   bytes  val = the bytes;                                               *)
(*   str    an object that is neither a number nor bytes;                  *)
(*   TypeError, ValueError, MemoryError: the exception a call raised.      *)
(* A C integer of n bytes is its two's-complement pattern, a sequence of   *)
(* n bytes ordered by significance (most significant first); the order of  *)
(* bytes in memory is modelled only where the code looks at memory.        *)
(***************************************************************************)
EXTENDS Integers, Sequences, FiniteSets, TLC

ONE_BYTE == 1
TWO_BYTES == 2
FOUR_BYTES == 4
EIGHT_BYTES == 8

Byte == 0..255

(* ------------------------- digit sequences ----------------------------- *)

Zeros(n) == [i \in 1..n |-> 0]

Reverse(s) == [i \in 1..Len(s) |-> s[Len(s) + 1 - i]]

RECURSIVE Strip(_)
Strip(s) == IF s = <<>> THEN <<>>
            ELSE IF Head(s) = 0 THEN Strip(Tail(s)) ELSE s

Pad(s, n) == Zeros(n - Len(s)) \o s

\* x < y for magnitudes without leading zeros
MagLess(x, y) ==
    \/ Len(x) < Len(y)
    \/ /\ Len(x) = Len(y)
       /\ \E i \in 1..Len(x) : x[i] < y[i] /\ \A j \in 1..(i - 1) : x[j] = y[j]

Compl(s) == [i \in 1..Len(s) |-> 255 - s[i]]

RECURSIVE Inc(_)
Inc(s) == IF s = <<>> THEN <<>>
          ELSE LET n == Len(s)
               IN  IF s[n] < 255 THEN [s EXCEPT ![n] = s[n] + 1]
                   ELSE Append(Inc(SubSeq(s, 1, n - 1)), 0)

\* two's-complement negation of an n-byte pattern
TwosNeg(s) == Inc(Compl(s))

(* --------------------------- Python objects ---------------------------- *)

PyLong(neg, mag) == [type |-> "int", neg |-> neg, val |-> mag]
PyFloat(bits) == [type |-> "float", neg |-> FALSE, val |-> bits]
PyBytes(data) == [type |-> "bytes", neg |-> FALSE, val |-> data]
PyStr == [type |-> "str", neg |-> FALSE, val |-> <<>>]
Raise(exc) == [type |-> exc, neg |-> FALSE, val |-> <<>>]

Pos(mag) == PyLong(FALSE, mag)
Neg(mag) == PyLong(TRUE, mag)

\* a < b for Python ints
NumLess(a, b) ==
    IF a.neg
    THEN IF b.neg THEN MagLess(b.val, a.val) ELSE TRUE
    ELSE IF b.neg THEN FALSE ELSE MagLess(a.val, b.val)

\* -2^(8n-1) <= v <= 2^(8n-1) - 1
FitsSigned(v, n) ==
    LET half == <<128>> \o Zeros(n - 1)
    IN  IF v.neg THEN ~MagLess(half, v.val) ELSE MagLess(v.val, half)

\* 0 <= v <= 2^(8n) - 1
FitsUnsigned(v, n) == ~v.neg /\ Len(v.val) <= n

\* the n-byte two's-complement pattern of a value that fits
ToBits(v, n) == IF v.neg THEN TwosNeg(Pad(v.val, n)) ELSE Pad(v.val, n)

\* PyLong_FromLong / PyLong_FromLongLong: the value of a signed pattern
FromSigned(bits) ==
    IF bits[1] >= 128 THEN PyLong(TRUE, Strip(TwosNeg(bits)))
    ELSE PyLong(FALSE, Strip(bits))

\* PyLong_FromUnsignedLong / PyLong_FromUnsignedLongLong
FromUnsigned(bits) == PyLong(FALSE, Strip(bits))

(* ------------------------------ bytes ---------------------------------- *)

\* (x >> (i * 8)) & 0xff
ShiftByte(bits, i) == bits[Len(bits) - i]

Xor80(b) == IF b >= 128 THEN b - 128 ELSE b + 128
Or80(b) == IF b >= 128 THEN b ELSE b + 128
Not8(b) == 255 - b

\* memcmp order of byte strings, a proper prefix sorting first
RECURSIVE LexLess(_, _)
LexLess(x, y) ==
    IF y = <<>> THEN FALSE
    ELSE IF x = <<>> THEN TRUE
    ELSE IF Head(x) # Head(y) THEN Head(x) < Head(y)
    ELSE LexLess(Tail(x), Tail(y))

(* ------------------------ the CPython interface ------------------------ *)

\* PyArg_ParseTuple(args, fmt, ...): TRUE when the argument converts.  "i", "h"
\* and "L" take an int that fits a C int, short and long long (OverflowError
\* otherwise); "f" and "d" take a float; "y#" takes bytes; "O" takes anything.
PyArg_ParseTuple(args, fmt) ==
    CASE fmt = "i" -> args.type = "int" /\ FitsSigned(args, FOUR_BYTES)
      [] fmt = "h" -> args.type = "int" /\ FitsSigned(args, TWO_BYTES)
      [] fmt = "L" -> args.type = "int" /\ FitsSigned(args, EIGHT_BYTES)
      [] fmt = "f" -> args.type = "float"
      [] fmt = "d" -> args.type = "float"
      [] fmt = "y#" -> args.type = "bytes"
      [] fmt = "O" -> TRUE

\* PyLong_AsUnsignedLongLong(obj) succeeds: an int in [0, 2^64 - 1]
PyLong_AsUnsignedLongLong(obj) ==
    obj.type = "int" /\ FitsUnsigned(obj, EIGHT_BYTES)

(* --------------------------- endianness probe -------------------------- *)

Hosts == {"big", "little"}

\* the bytes of an object in the memory of the host, from its pattern
Memory(host, bits) == IF host = "little" THEN Reverse(bits) ELSE bits

\* the pattern of an object from its bytes in memory
FromMemory(host, bytes) == IF host = "little" THEN Reverse(bytes) ELSE bytes

\* 0 on a big-endian machine, 1 on a little-endian one
endianness_impl(host) ==
    LET number == <<0, 1>>
        numPtr == Memory(host, number)
    IN  IF numPtr[1] = 1 THEN 1 ELSE 0

(* ---------------------------- integer codecs --------------------------- *)

\* FillShifted with the two loops exchanged
FillShifted_Swapped(e, bits, w) ==
    IF e = 0
    THEN [k \in 1..w |-> ShiftByte(bits, w - k)]
    ELSE [k \in 1..w |-> ShiftByte(bits, k - 1)]

\* for i < w: buffer[i] = (input >> (i*8)) & 0xff            (ENDIANNESS == 0)
\*            buffer[w - 1 - i] = (input >> (i*8)) & 0xff    (otherwise)
FillShifted(e, bits, w) ==
    IF e = 0
    THEN [k \in 1..w |-> ShiftByte(bits, k - 1)]
    ELSE [k \in 1..w |-> ShiftByte(bits, w - k)]

\* OrShifted with the ENDIANNESS == 0 loop dropped
OrShifted_NoProbe(e, buffer) == buffer

\* decoded |= buffer[i] << (i*8)             (ENDIANNESS == 0)
\* decoded |= buffer[w - 1 - i] << (i*8)     (otherwise)
\* the pattern of decoded, most significant byte first
OrShifted(e, buffer) ==
    IF e = 0 THEN Reverse(buffer) ELSE buffer

\* buffer[0] ^= 0x80
FlipSign(buffer) == [buffer EXCEPT ![1] = Xor80(buffer[1])]

from_int8(e, m, args) ==
    IF ~PyArg_ParseTuple(args, "i") THEN Raise("TypeError")
    ELSE IF NumLess(args, Neg(<<128>>)) \/ NumLess(Pos(<<127>>), args)
    THEN Raise("ValueError")
    ELSE IF ~m THEN Raise("MemoryError")
    ELSE LET input == ToBits(args, FOUR_BYTES)
             buffer == <<ShiftByte(input, 0)>>
         IN  PyBytes(FlipSign(buffer))

\* to_int8 without decoded ^= 0x80
to_int8_NoFlip(e, m, args) ==
    IF ~PyArg_ParseTuple(args, "y#") THEN Raise("TypeError")
    ELSE IF Len(args.val) # ONE_BYTE THEN Raise("ValueError")
    ELSE LET decoded == <<args.val[1]>>
         IN  FromSigned(decoded)

to_int8(e, m, args) ==
    IF ~PyArg_ParseTuple(args, "y#") THEN Raise("TypeError")
    ELSE IF Len(args.val) # ONE_BYTE THEN Raise("ValueError")
    ELSE LET decoded == <<Xor80(args.val[1])>>
         IN  FromSigned(decoded)

from_uint8(e, m, args) ==
    IF ~PyArg_ParseTuple(args, "i") THEN Raise("TypeError")
    ELSE IF NumLess(args, Pos(<<>>)) \/ NumLess(Pos(<<255>>), args)
    THEN Raise("ValueError")
    ELSE IF ~m THEN Raise("MemoryError")
    ELSE LET input == ToBits(args, FOUR_BYTES)
             buffer == <<ShiftByte(input, 0)>>
         IN  PyBytes(buffer)

to_uint8(e, m, args) ==
    IF ~PyArg_ParseTuple(args, "y#") THEN Raise("TypeError")
    ELSE IF Len(args.val) # ONE_BYTE THEN Raise("ValueError")
    ELSE LET decoded == <<args.val[1]>>
         IN  FromUnsigned(decoded)

from_int16(e, m, args) ==
    IF ~PyArg_ParseTuple(args, "h") THEN Raise("TypeError")
    ELSE IF ~m THEN Raise("MemoryError")
    ELSE LET input == ToBits(args, TWO_BYTES)
             buffer == FillShifted(e, input, TWO_BYTES)
         IN  PyBytes(FlipSign(buffer))

to_int16(e, m, args) ==
    IF ~PyArg_ParseTuple(args, "y#") THEN Raise("TypeError")
    ELSE IF Len(args.val) # TWO_BYTES THEN Raise("ValueError")
    ELSE IF ~m THEN Raise("MemoryError")
    ELSE LET buffer == FlipSign(args.val)
             decoded == IF e = 0 THEN <<buffer[2], buffer[1]>>
                        ELSE <<buffer[1], buffer[2]>>
         IN  FromSigned(decoded)

from_uint16(e, m, args) ==
    IF ~PyArg_ParseTuple(args, "i") THEN Raise("TypeError")
    ELSE IF NumLess(args, Pos(<<>>)) \/ NumLess(Pos(<<255, 255>>), args)
    THEN Raise("ValueError")
    ELSE IF ~m THEN Raise("MemoryError")
    ELSE LET u_input == SubSeq(ToBits(args, FOUR_BYTES), 3, 4)
             buffer == FillShifted(e, u_input, TWO_BYTES)
         IN  PyBytes(buffer)

to_uint16(e, m, args) ==
    IF ~PyArg_ParseTuple(args, "y#") THEN Raise("TypeError")
    ELSE IF Len(args.val) # TWO_BYTES THEN Raise("ValueError")
    ELSE IF ~m THEN Raise("MemoryError")
    ELSE LET buffer == args.val
             decoded == IF e = 0 THEN <<buffer[2], buffer[1]>>
                        ELSE <<buffer[1], buffer[2]>>
         IN  FromUnsigned(decoded)

from_int32(e, m, args) ==
    IF ~PyArg_ParseTuple(args, "i") THEN Raise("TypeError")
    ELSE IF ~m THEN Raise("MemoryError")
    ELSE LET input == ToBits(args, FOUR_BYTES)
             buffer == FillShifted(e, input, FOUR_BYTES)
         IN  PyBytes(FlipSign(buffer))

\* to_int32 with count < FOUR_BYTES for count != FOUR_BYTES
to_int32_ShortOnly(e, m, args) ==
    IF ~PyArg_ParseTuple(args, "y#") THEN Raise("TypeError")
    ELSE IF Len(args.val) < FOUR_BYTES THEN Raise("ValueError")
    ELSE IF ~m THEN Raise("MemoryError")
    ELSE FromSigned(OrShifted(e, FlipSign(SubSeq(args.val, 1, FOUR_BYTES))))

to_int32(e, m, args) ==
    IF ~PyArg_ParseTuple(args, "y#") THEN Raise("TypeError")
    ELSE IF Len(args.val) # FOUR_BYTES THEN Raise("ValueError")
    ELSE IF ~m THEN Raise("MemoryError")
    ELSE LET buffer == FlipSign(args.val)
             decoded == OrShifted(e, buffer)
         IN  FromSigned(decoded)

from_uint32(e, m, args) ==
    IF ~PyArg_ParseTuple(args, "L") THEN Raise("TypeError")
    ELSE IF NumLess(args, Pos(<<>>))
            \/ NumLess(Pos(<<255, 255, 255, 255>>), args)
    THEN Raise("ValueError")
    ELSE IF ~m THEN Raise("MemoryError")
    ELSE LET u_input == SubSeq(ToBits(args, EIGHT_BYTES), 5, 8)
             buffer == FillShifted(e, u_input, FOUR_BYTES)
         IN  PyBytes(buffer)

to_uint32(e, m, args) ==
    IF ~PyArg_ParseTuple(args, "y#") THEN Raise("TypeError")
    ELSE IF Len(args.val) # FOUR_BYTES THEN Raise("ValueError")
    ELSE IF ~m THEN Raise("MemoryError")
    ELSE LET buffer == args.val
             decoded == OrShifted(e, buffer)
         IN  FromUnsigned(decoded)

from_int64(e, m, args) ==
    IF ~PyArg_ParseTuple(args, "L") THEN Raise("TypeError")
    ELSE IF ~m THEN Raise("MemoryError")
    ELSE LET input == ToBits(args, EIGHT_BYTES)
             buffer == FillShifted(e, input, EIGHT_BYTES)
         IN  PyBytes(FlipSign(buffer))

to_int64(e, m, args) ==
    IF ~PyArg_ParseTuple(args, "y#") THEN Raise("TypeError")
    ELSE IF Len(args.val) # EIGHT_BYTES THEN Raise("ValueError")
    ELSE IF ~m THEN Raise("MemoryError")
    ELSE LET buffer == FlipSign(args.val)
             decoded == OrShifted(e, buffer)
         IN  FromSigned(decoded)

from_uint64(e, m, args) ==
    IF ~PyArg_ParseTuple(args, "O") THEN Raise("TypeError")
    ELSE IF ~PyLong_AsUnsignedLongLong(args) THEN Raise("TypeError")
    ELSE IF ~m THEN Raise("MemoryError")
    ELSE LET input == ToBits(args, EIGHT_BYTES)
             buffer == FillShifted(e, input, EIGHT_BYTES)
         IN  PyBytes(buffer)

to_uint64(e, m, args) ==
    IF ~PyArg_ParseTuple(args, "y#") THEN Raise("TypeError")
    ELSE IF Len(args.val) # EIGHT_BYTES THEN Raise("ValueError")
    ELSE IF ~m THEN Raise("MemoryError")
    ELSE LET buffer == args.val
             decoded == OrShifted(e, buffer)
         IN  FromUnsigned(decoded)

(* ----------------------------- float codecs ---------------------------- *)

\* the fields of an IEEE-754 pattern of 4 or 8 bytes
SignBit(bits) == bits[1] \div 128

Exponent(bits) ==
    IF Len(bits) = FOUR_BYTES
    THEN (bits[1] % 128) * 2 + bits[2] \div 128
    ELSE (bits[1] % 128) * 16 + bits[2] \div 16

Mantissa(bits) ==
    IF Len(bits) = FOUR_BYTES
    THEN <<bits[2] % 128>> \o SubSeq(bits, 3, Len(bits))
    ELSE <<bits[2] % 16>> \o SubSeq(bits, 3, Len(bits))

MaxExponent(bits) == IF Len(bits) = FOUR_BYTES THEN 255 ELSE 2047

IsNaN(bits) ==
    Exponent(bits) = MaxExponent(bits) /\ Strip(Mantissa(bits)) # <<>>

IsZero(bits) == Exponent(bits) = 0 /\ Strip(Mantissa(bits)) = <<>>

\* |x| < |y| for patterns that are not NaN
AbsLess(x, y) ==
    \/ Exponent(x) < Exponent(y)
    \/ Exponent(x) = Exponent(y) /\ MagLess(Mantissa(x), Mantissa(y))

\* the C comparison x < y of floating-point values: false when either is NaN
FloatLess(x, y) ==
    /\ ~IsNaN(x) /\ ~IsNaN(y)
    /\ ~(IsZero(x) /\ IsZero(y))
    /\ IF SignBit(x) = 1
       THEN IF SignBit(y) = 1 THEN AbsLess(y, x) ELSE TRUE
       ELSE IF SignBit(y) = 1 THEN FALSE ELSE AbsLess(x, y)

\* the C comparison input >= 0: false for NaN, true for both zeros
GeZero(bits) == ~IsNaN(bits) /\ (SignBit(bits) = 0 \/ IsZero(bits))

\* buffer[i] = bytes[i] (ENDIANNESS == 0), buffer[w - 1 - i] = bytes[i] (otherwise)
FillCopied(e, bytes) == IF e = 0 THEN bytes ELSE Reverse(bytes)

\* from_float without buffer[0] |= 0x80
from_float_SignNotSet(h, e, m, args, fmt) ==
    IF ~PyArg_ParseTuple(args, fmt) THEN Raise("TypeError")
    ELSE IF ~m THEN Raise("MemoryError")
    ELSE IF GeZero(args.val)
    THEN PyBytes(FillCopied(e, Memory(h, args.val)))
    ELSE PyBytes(FillCopied(e, Compl(Memory(h, args.val))))

from_float(h, e, m, args, fmt) ==
    IF ~PyArg_ParseTuple(args, fmt) THEN Raise("TypeError")
    ELSE LET input == args.val
             f_bytes == Memory(h, input)
         IN  IF ~m THEN Raise("MemoryError")
             ELSE IF GeZero(input)
             THEN LET buffer == FillCopied(e, f_bytes)
                  IN  PyBytes([buffer EXCEPT ![1] = Or80(buffer[1])])
             ELSE PyBytes(FillCopied(e, Compl(f_bytes)))

to_float(h, e, m, args, w) ==
    IF ~PyArg_ParseTuple(args, "y#") THEN Raise("TypeError")
    ELSE IF Len(args.val) # w THEN Raise("ValueError")
    ELSE IF ~m THEN Raise("MemoryError")
    ELSE LET input == args.val
             buffer ==
                 IF input[1] >= 128
                 THEN IF e = 0
                      THEN [input EXCEPT ![1] = Xor80(input[1])]
                      ELSE LET r == Reverse(input)
                           IN  [r EXCEPT ![w] = Xor80(r[w])]
                 ELSE FillCopied(e, Compl(input))
             f_bytes == buffer
         IN  PyFloat(FromMemory(h, f_bytes))

from_float32(h, e, m, args) == from_float(h, e, m, args, "f")

to_float32(h, e, m, args) == to_float(h, e, m, args, FOUR_BYTES)

from_float64(h, e, m, args) == from_float(h, e, m, args, "d")

to_float64(h, e, m, args) == to_float(h, e, m, args, EIGHT_BYTES)

(* ------------------------------ the module ----------------------------- *)

IntDomains == {"int8", "uint8", "int16", "uint16",
               "int32", "uint32", "int64", "uint64"}
FloatDomains == {"float32", "float64"}
Domains == IntDomains \cup FloatDomains
SignedDomains == {"int8", "int16", "int32", "int64"}

Width(d) ==
    CASE d \in {"int8", "uint8"} -> ONE_BYTE
      [] d \in {"int16", "uint16"} -> TWO_BYTES
      [] d \in {"int32", "uint32", "float32"} -> FOUR_BYTES
      [] d \in {"int64", "uint64", "float64"} -> EIGHT_BYTES

\* EncdecMethods: from_<domain>
Encode(d, h, e, m, args) ==
    CASE d = "int8" -> from_int8(e, m, args)
      [] d = "uint8" -> from_uint8(e, m, args)
      [] d = "int16" -> from_int16(e, m, args)
      [] d = "uint16" -> from_uint16(e, m, args)
      [] d = "int32" -> from_int32(e, m, args)
      [] d = "uint32" -> from_uint32(e, m, args)
      [] d = "int64" -> from_int64(e, m, args)
      [] d = "uint64" -> from_uint64(e, m, args)
      [] d = "float32" -> from_float32(h, e, m, args)
      [] d = "float64" -> from_float64(h, e, m, args)

\* EncdecMethods: to_<domain>
Decode(d, h, e, m, args) ==
    CASE d = "int8" -> to_int8(e, m, args)
      [] d = "uint8" -> to_uint8(e, m, args)
      [] d = "int16" -> to_int16(e, m, args)
      [] d = "uint16" -> to_uint16(e, m, args)
      [] d = "int32" -> to_int32(e, m, args)
      [] d = "uint32" -> to_uint32(e, m, args)
      [] d = "int64" -> to_int64(e, m, args)
      [] d = "uint64" -> to_uint64(e, m, args)
      [] d = "float32" -> to_float32(h, e, m, args)
      [] d = "float64" -> to_float64(h, e, m, args)

(* ------------------------------- inputs -------------------------------- *)

MaxLen == 9

\* magnitudes around every bound of every integer domain, and some whose
\* bytes all differ
IntMagnitudes ==
    { <<>>, <<1>>, <<127>>, <<128>>, <<129>>, <<200>>, <<255>>,
      <<1, 0>>, <<1, 2>>, <<1, 44>>, <<127, 255>>, <<128, 0>>, <<128, 1>>,
      <<255, 255>>, <<1, 0, 0>>,
      <<1, 2, 3, 4>>, <<127, 255, 255, 255>>, <<128, 0, 0, 0>>,
      <<128, 0, 0, 1>>, <<255, 255, 255, 255>>, <<1, 0, 0, 0, 0>>,
      <<1, 2, 3, 4, 5, 6, 7, 8>>,
      <<127, 255, 255, 255, 255, 255, 255, 255>>,
      <<128, 0, 0, 0, 0, 0, 0, 0>>, <<128, 0, 0, 0, 0, 0, 0, 1>>,
      <<255, 255, 255, 255, 255, 255, 255, 255>>,
      <<1, 0, 0, 0, 0, 0, 0, 0, 0>> }

IntObjects ==
    {Pos(mag) : mag \in IntMagnitudes}
        \cup {Neg(mag) : mag \in IntMagnitudes \ {<<>>}}

\* float32 patterns: both signs; exponents 0 (zero, subnormal), 1, 127, 254
\* and 255 (infinity, NaN); mantissas 0, 1, 0x3fffff, 0x400000, 0x7fffff
Float32Patterns ==
    { <<s * 128 + x \div 2, (x % 2) * 128 + f[1], f[2], f[3]>> :
        s \in {0, 1}, x \in {0, 1, 127, 254, 255},
        f \in {<<0, 0, 0>>, <<0, 0, 1>>, <<63, 255, 255>>, <<64, 0, 0>>,
               <<127, 255, 255>>} }

\* float64 patterns: exponents 0, 1, 1023, 2046 and 2047; mantissas 0, 1,
\* 2^51 - 1, 2^51 and 2^52 - 1
Float64Patterns ==
    { <<s * 128 + x \div 16, (x % 16) * 16 + f[1]>> \o Tail(f) :
        s \in {0, 1}, x \in {0, 1, 1023, 2046, 2047},
        f \in {<<0, 0, 0, 0, 0, 0, 0>>, <<0, 0, 0, 0, 0, 0, 1>>,
               <<7, 255, 255, 255, 255, 255, 255>>,
               <<8, 0, 0, 0, 0, 0, 0>>,
               <<15, 255, 255, 255, 255, 255, 255>>} }

\* the arguments a caller passes to from_<d>
Arguments(d) ==
    CASE d \in IntDomains -> IntObjects \cup {PyStr}
      [] d = "float32" -> {PyFloat(f) : f \in Float32Patterns} \cup {PyStr}
      [] d = "float64" -> {PyFloat(f) : f \in Float64Patterns} \cup {PyStr}

\* byte strings of n bytes: every single byte; every byte beside 0x00 and
\* 0xff in either place of two; a first byte, a repeated middle byte and a
\* last byte; 1, 2, ..., n
ByteStrings(n) ==
    { [i \in 1..n |-> IF i = 1 THEN f ELSE IF i = n THEN l ELSE r] :
        f \in {0, 1, 127, 128, 255}, r \in {0, 255}, l \in {0, 1, 128, 255} }
        \cup { [i \in 1..n |-> i] }
        \cup (IF n = 1 THEN { <<c>> : c \in Byte } ELSE {})
        \cup (IF n = 2
              THEN { <<c, r>> : c \in Byte, r \in {0, 255} }
                       \cup { <<r, c>> : c \in Byte, r \in {0, 255} }
              ELSE {})

\* the arguments a caller passes to to_<d>
RawArguments ==
    {PyBytes(r) : r \in UNION {ByteStrings(n) : n \in 0..MaxLen}}
        \cup {PyStr, Pos(<<1>>)}

(* ------------------------ calls, one at a time -------------------------- *)

VARIABLES
    host,        \* the byte order of the machine
    ENDIANNESS,  \* static const int8_t ENDIANNESS
    memory,      \* whether PyMem_RawMalloc finds memory
    pc,          \* what has been called
    dom,         \* the domain of the calls
    a, b,        \* the arguments of the calls
    ea, eb,      \* what from_<dom> returned
    da,          \* what to_<dom> returned
    \* calls running concurrently, statement by statement
    cop,         \* the function each call runs
    cargs,       \* its argument
    cpc,         \* the statement it is at
    ci,          \* int i of the loop it is in
    cbuf,        \* char* buffer
    cacc,        \* decoded, f_bytes.bytes
    cret,        \* PyObject* output, or the exception raised
    cio,         \* how many bytes it has copied so far
    heap         \* the blocks PyMem_RawMalloc hands out

seqVars == <<memory, pc, dom, a, b, ea, eb, da>>
callVars == <<cop, cargs, cpc, ci, cbuf, cacc, cret, cio, heap>>
vars == <<host, ENDIANNESS, seqVars, callVars>>

None == [type |-> "none", neg |-> FALSE, val |-> <<>>]

Calls == {"c1", "c2"}
Blocks == {"b1", "b2"}

Init ==
    /\ host \in Hosts
    /\ ENDIANNESS = endianness_impl(host)
    /\ memory \in BOOLEAN
    /\ pc = "idle"
    /\ dom = "int8"
    /\ a = None /\ b = None /\ ea = None /\ eb = None /\ da = None
    /\ cop = [c \in Calls |-> [dir |-> "none", dom |-> "int8"]]
    /\ cargs = [c \in Calls |-> None]
    /\ cpc = [c \in Calls |-> 0]
    /\ ci = [c \in Calls |-> 0]
    /\ cbuf = [c \in Calls |-> "unset"]
    /\ cacc = [c \in Calls |-> <<>>]
    /\ cret = [c \in Calls |-> None]
    /\ cio = [c \in Calls |-> 0]
    /\ heap = [k \in Blocks |->
                 [owner |-> "free", data |-> [i \in 1..EIGHT_BYTES |-> 170]]]

\* ea = from_<d>(x) and eb = from_<d>(y)
EncodePair ==
    /\ pc = "idle"
    /\ \E d \in Domains : \E x, y \in Arguments(d) :
        /\ dom' = d /\ a' = x /\ b' = y
        /\ ea' = Encode(d, host, ENDIANNESS, memory, x)
        /\ eb' = Encode(d, host, ENDIANNESS, memory, y)
    /\ pc' = "encoded"
    /\ UNCHANGED <<host, ENDIANNESS, memory, da, callVars>>

\* da = to_<dom>(ea)
DecodeBack ==
    /\ pc = "encoded" /\ ea.type = "bytes"
    /\ pc' = "decoded"
    /\ da' = Decode(dom, host, ENDIANNESS, memory, ea)
    /\ UNCHANGED <<host, ENDIANNESS, memory, dom, a, b, ea, eb, callVars>>

\* da = to_<d>(x) for any bytes x
DecodeRaw ==
    /\ pc = "idle"
    /\ \E d \in Domains : \E x \in RawArguments :
        /\ dom' = d /\ a' = x
        /\ da' = Decode(d, host, ENDIANNESS, memory, x)
    /\ pc' = "rawdecoded"
    /\ UNCHANGED <<host, ENDIANNESS, memory, b, ea, eb, callVars>>

\* ea = from_<dom>(da)
EncodeBack ==
    /\ pc = "rawdecoded" /\ da.type \in {"int", "float"}
    /\ pc' = "reencoded"
    /\ ea' = Encode(dom, host, ENDIANNESS, memory, da)
    /\ UNCHANGED <<host, ENDIANNESS, memory, dom, a, b, eb, da, callVars>>

Next ==
    \/ EncodePair
    \/ DecodeBack
    \/ DecodeRaw
    \/ EncodeBack

Spec == Init /\ [][Next]_vars

(* ------------- concurrent calls, statement by statement ---------------- *)

Ops == [dir : {"from", "to"}, dom : Domains]

\* Program with the buffer of the decoders allocated before the length check
Program_AllocFirst(op) ==
    IF op.dir = "from"
    THEN CASE op.dom = "int8" ->
                <<"parse", "range", "malloc", "fill", "flip", "build", "free">>
           [] op.dom \in {"uint8", "uint16", "uint32"} ->
                <<"parse", "range", "malloc", "fill", "build", "free">>
           [] op.dom \in {"int16", "int32", "int64"} ->
                <<"parse", "malloc", "fill", "flip", "build", "free">>
           [] op.dom = "uint64" ->
                <<"parse", "aslong", "malloc", "fill", "build", "free">>
           [] op.dom \in FloatDomains ->
                <<"parse", "malloc", "fill", "flip", "build", "free">>
    ELSE IF op.dir = "to"
    THEN CASE op.dom \in {"int8", "uint8"} ->
                <<"parse", "length", "direct">>
           [] op.dom \in {"int16", "uint16", "int32", "uint32",
                          "int64", "uint64"} ->
                <<"parse", "malloc", "length", "fill", "read", "build",
                  "free">>
           [] op.dom \in FloatDomains ->
                <<"parse", "malloc", "length", "fill", "flip", "read",
                  "build", "free">>
    ELSE <<>>

\* the statements of a function, in the order of the source
Program(op) ==
    IF op.dir = "from"
    THEN CASE op.dom = "int8" ->
                <<"parse", "range", "malloc", "fill", "flip", "build", "free">>
           [] op.dom \in {"uint8", "uint16", "uint32"} ->
                <<"parse", "range", "malloc", "fill", "build", "free">>
           [] op.dom \in {"int16", "int32", "int64"} ->
                <<"parse", "malloc", "fill", "flip", "build", "free">>
           [] op.dom = "uint64" ->
                <<"parse", "aslong", "malloc", "fill", "build", "free">>
           [] op.dom \in FloatDomains ->
                <<"parse", "malloc", "fill", "flip", "build", "free">>
    ELSE IF op.dir = "to"
    THEN CASE op.dom \in {"int8", "uint8"} ->
                <<"parse", "length", "direct">>
           [] op.dom \in {"int16", "uint16", "int32", "uint32",
                          "int64", "uint64"} ->
                <<"parse", "length", "malloc", "fill", "read", "build",
                  "free">>
           [] op.dom \in FloatDomains ->
                <<"parse", "length", "malloc", "fill", "flip", "read",
                  "build", "free">>
    ELSE <<>>

\* the format string of the call to PyArg_ParseTuple
Format(op) ==
    IF op.dir = "to" THEN "y#"
    ELSE CASE op.dom \in {"int8", "uint8", "uint16", "int32"} -> "i"
           [] op.dom = "int16" -> "h"
           [] op.dom \in {"uint32", "int64"} -> "L"
           [] op.dom = "uint64" -> "O"
           [] op.dom = "float32" -> "f"
           [] op.dom = "float64" -> "d"

\* the explicit range check of from_int8, from_uint8, from_uint16, from_uint32
RangeOk(op, args) ==
    CASE op.dom = "int8" ->
            ~(NumLess(args, Neg(<<128>>)) \/ NumLess(Pos(<<127>>), args))
      [] op.dom = "uint8" ->
            ~(NumLess(args, Pos(<<>>)) \/ NumLess(Pos(<<255>>), args))
      [] op.dom = "uint16" ->
            ~(NumLess(args, Pos(<<>>)) \/ NumLess(Pos(<<255, 255>>), args))
      [] op.dom = "uint32" ->
            ~(NumLess(args, Pos(<<>>))
                \/ NumLess(Pos(<<255, 255, 255, 255>>), args))

\* the exception a validating statement raises, or "none"
Failure(kind, op, args) ==
    CASE kind = "parse" ->
            IF PyArg_ParseTuple(args, Format(op)) THEN "none" ELSE "TypeError"
      [] kind = "range" ->
            IF RangeOk(op, args) THEN "none" ELSE "ValueError"
      [] kind = "aslong" ->
            IF PyLong_AsUnsignedLongLong(args) THEN "none" ELSE "TypeError"
      [] kind = "length" ->
            IF Len(args.val) = Width(op.dom) THEN "none" ELSE "ValueError"

\* input, u_input: the low Width bytes of the parsed integer
InputBits(op, args) ==
    SubSeq(ToBits(args, EIGHT_BYTES),
           EIGHT_BYTES - Width(op.dom) + 1, EIGHT_BYTES)

\* the index into buffer that iteration i of the copying loop writes
FillIndex(op, e, i) ==
    IF op.dir = "to" /\ op.dom \in IntDomains THEN i
    ELSE IF Width(op.dom) = ONE_BYTE THEN 0
    ELSE IF e = 0 THEN i ELSE Width(op.dom) - 1 - i

\* the byte that iteration i of the copying loop writes
FillValue(op, h, args, i) ==
    IF op.dir = "from"
    THEN IF op.dom \in IntDomains THEN ShiftByte(InputBits(op, args), i)
         ELSE LET f_bytes == Memory(h, args.val)
              IN  IF GeZero(args.val) THEN f_bytes[i + 1]
                  ELSE Not8(f_bytes[i + 1])
    ELSE LET input == args.val
         IN  IF op.dom \in SignedDomains
             THEN IF i = 0 THEN Xor80(input[1]) ELSE input[i + 1]
             ELSE IF op.dom \in FloatDomains /\ input[1] < 128
             THEN Not8(input[i + 1])
             ELSE input[i + 1]

\* whether the function changes the sign bit after the copying loop
NeedsFlip(op, args) ==
    IF op.dir = "from"
    THEN IF op.dom \in FloatDomains THEN GeZero(args.val)
         ELSE op.dom \in SignedDomains
    ELSE op.dom \in FloatDomains /\ args.val[1] >= 128

\* buffer[0], or buffer[w - 1] in to_float32 and to_float64 when ENDIANNESS != 0
FlipIndex(op, e) ==
    IF op.dir = "to" /\ e # 0 THEN Width(op.dom) - 1 ELSE 0

\* ^= 0x80, or |= 0x80 in from_float32 and from_float64
FlipByte(op, byte) ==
    IF op.dir = "from" /\ op.dom \in FloatDomains THEN Or80(byte)
    ELSE Xor80(byte)

\* the index into buffer that iteration i of the assembling loop reads
ReadIndex(op, e, i) ==
    IF op.dom \in FloatDomains THEN i
    ELSE IF e = 0 THEN i ELSE Width(op.dom) - 1 - i

\* where that byte goes: byte i of decoded, or f_bytes.bytes[i]
AccIndex(op, i) ==
    IF op.dom \in FloatDomains THEN i + 1 ELSE Width(op.dom) - i

\* Py_BuildValue, PyLong_FromLongLong, PyLong_FromUnsignedLongLong
BuildValue(op, h, acc) ==
    IF op.dom \in FloatDomains THEN PyFloat(FromMemory(h, acc))
    ELSE IF op.dom \in SignedDomains THEN FromSigned(acc)
    ELSE FromUnsigned(acc)

\* FreeBlocks for a buffer that is one static array shared by all calls
FreeBlocks_Static(h) == {"b1"}

\* PyMem_RawMalloc: the blocks it may return
FreeBlocks(h) == {k \in Blocks : h[k].owner = "free"}

\* bytes of w bytes: first, then 2, 3, ..., w
Ramp(first, w) == [i \in 1..w |-> IF i = 1 THEN first ELSE i]

\* the arguments of the concurrent calls: one the function accepts (two for
\* the float codecs, one for each branch) and one it rejects
CallArguments(op) ==
    LET w == Width(op.dom)
    IN  IF op.dir = "to"
        THEN {PyBytes(Ramp(129, w)), PyBytes(Ramp(129, w - 1))}
                \cup (IF op.dom \in FloatDomains
                      THEN {PyBytes(Ramp(1, w))} ELSE {})
        ELSE IF op.dom \in FloatDomains
        THEN {PyFloat(Ramp(65, w)), PyFloat(Ramp(193, w)), PyStr}
        ELSE IF op.dom \in SignedDomains
        THEN {Neg(Ramp(1, w)), Pos(<<128>> \o Zeros(w - 1))}
        ELSE {Pos(Ramp(129, w)), Neg(<<1>>)}

Kind(c) ==
    LET P == Program(cop[c])
    IN  IF cpc[c] \in 1..Len(P) THEN P[cpc[c]] ELSE "none"

Returned(c) == cpc[c] > Len(Program(cop[c]))

\* the statement after the current one
After(c) ==
    LET P == Program(cop[c])
        j == cpc[c] + 1
    IN  IF j <= Len(P) /\ P[j] = "flip" /\ ~NeedsFlip(cop[c], cargs[c])
        THEN j + 1 ELSE j

\* a thread calls a function of the module
Invoke(c) ==
    /\ cpc[c] = 0
    /\ \E op \in Ops : \E x \in CallArguments(op) :
        /\ cop' = [cop EXCEPT ![c] = op]
        /\ cargs' = [cargs EXCEPT ![c] = x]
        /\ cacc' = [cacc EXCEPT ![c] = Zeros(Width(op.dom))]
    /\ cpc' = [cpc EXCEPT ![c] = 1]
    /\ UNCHANGED <<host, ENDIANNESS, seqVars, ci, cbuf, cret, cio, heap>>

\* PyArg_ParseTuple, PyLong_AsUnsignedLongLong, the range or the length check
Validate(c) ==
    /\ Kind(c) \in {"parse", "range", "aslong", "length"}
    /\ LET exc == Failure(Kind(c), cop[c], cargs[c])
       IN  IF exc # "none"
           THEN /\ cret' = [cret EXCEPT ![c] = Raise(exc)]
                /\ cpc' = [cpc EXCEPT ![c] = Len(Program(cop[c])) + 1]
           ELSE /\ cpc' = [cpc EXCEPT ![c] = After(c)]
                /\ UNCHANGED cret
    /\ UNCHANGED <<host, ENDIANNESS, seqVars, cop, cargs, ci, cbuf, cacc,
                   cio, heap>>

\* Malloc without the test buffer == NULL
Malloc_Unchecked(c) ==
    /\ Kind(c) = "malloc"
    /\ \/ /\ cbuf' = [cbuf EXCEPT ![c] = "NULL"]
          /\ UNCHANGED heap
       \/ \E k \in FreeBlocks(heap) :
          /\ cbuf' = [cbuf EXCEPT ![c] = k]
          /\ heap' = [heap EXCEPT ![k].owner = c]
    /\ cpc' = [cpc EXCEPT ![c] = After(c)]
    /\ ci' = [ci EXCEPT ![c] = 0]
    /\ UNCHANGED <<host, ENDIANNESS, seqVars, cop, cargs, cacc, cio, cret>>

\* buffer = PyMem_RawMalloc(w); if (buffer == NULL) return PyErr_NoMemory();
Malloc(c) ==
    /\ Kind(c) = "malloc"
    /\ \/ /\ cbuf' = [cbuf EXCEPT ![c] = "NULL"]
          /\ cret' = [cret EXCEPT ![c] = Raise("MemoryError")]
          /\ cpc' = [cpc EXCEPT ![c] = Len(Program(cop[c])) + 1]
          /\ UNCHANGED <<heap, ci>>
       \/ \E k \in FreeBlocks(heap) :
          /\ cbuf' = [cbuf EXCEPT ![c] = k]
          /\ heap' = [heap EXCEPT ![k].owner = c]
          /\ cpc' = [cpc EXCEPT ![c] = After(c)]
          /\ ci' = [ci EXCEPT ![c] = 0]
          /\ UNCHANGED cret
    /\ UNCHANGED <<host, ENDIANNESS, seqVars, cop, cargs, cacc, cio>>

\* one iteration of the loop that fills buffer
Fill(c) ==
    /\ Kind(c) = "fill"
    /\ LET i == ci[c]
           at == FillIndex(cop[c], ENDIANNESS, i) + 1
       IN  /\ heap' = [heap EXCEPT ![cbuf[c]].data[at] =
                            FillValue(cop[c], host, cargs[c], i)]
           /\ IF i + 1 < Width(cop[c].dom)
              THEN ci' = [ci EXCEPT ![c] = i + 1] /\ UNCHANGED cpc
              ELSE /\ ci' = [ci EXCEPT ![c] = 0]
                   /\ cpc' = [cpc EXCEPT ![c] = After(c)]
    /\ cio' = [cio EXCEPT ![c] = @ + 1]
    /\ UNCHANGED <<host, ENDIANNESS, seqVars, cop, cargs, cbuf, cacc, cret>>

\* buffer[0] ^= 0x80, buffer[0] |= 0x80, buffer[w - 1] ^= 0x80
Flip(c) ==
    /\ Kind(c) = "flip"
    /\ LET at == FlipIndex(cop[c], ENDIANNESS) + 1
       IN  heap' = [heap EXCEPT ![cbuf[c]].data[at] = FlipByte(cop[c], @)]
    /\ cpc' = [cpc EXCEPT ![c] = After(c)]
    /\ UNCHANGED <<host, ENDIANNESS, seqVars, cop, cargs, ci, cbuf, cacc,
                   cret, cio>>

\* one iteration of the loop that assembles decoded, or f_bytes, from buffer
Read(c) ==
    /\ Kind(c) = "read"
    /\ LET i == ci[c]
           from == ReadIndex(cop[c], ENDIANNESS, i) + 1
       IN  /\ cacc' = [cacc EXCEPT ![c][AccIndex(cop[c], i)] =
                            heap[cbuf[c]].data[from]]
           /\ IF i + 1 < Width(cop[c].dom)
              THEN ci' = [ci EXCEPT ![c] = i + 1] /\ UNCHANGED cpc
              ELSE /\ ci' = [ci EXCEPT ![c] = 0]
                   /\ cpc' = [cpc EXCEPT ![c] = After(c)]
    /\ UNCHANGED <<host, ENDIANNESS, seqVars, cop, cargs, cbuf, cret, cio,
                   heap>>

\* to_int8, to_uint8: decoded from input[0], without a buffer
Direct(c) ==
    /\ Kind(c) = "direct"
    /\ LET input == cargs[c].val
           decoded == IF cop[c].dom \in SignedDomains
                      THEN <<Xor80(input[1])>> ELSE <<input[1]>>
       IN  cret' = [cret EXCEPT ![c] = BuildValue(cop[c], host, decoded)]
    /\ cio' = [cio EXCEPT ![c] = @ + 1]
    /\ cpc' = [cpc EXCEPT ![c] = After(c)]
    /\ UNCHANGED <<host, ENDIANNESS, seqVars, cop, cargs, ci, cbuf, cacc,
                   heap>>

\* output = PyBytes_FromStringAndSize(buffer, w), output = Py_BuildValue(...)
Build(c) ==
    /\ Kind(c) = "build"
    /\ cret' = [cret EXCEPT ![c] =
                   IF cop[c].dir = "from"
                   THEN PyBytes(SubSeq(heap[cbuf[c]].data, 1,
                                       Width(cop[c].dom)))
                   ELSE BuildValue(cop[c], host, cacc[c])]
    /\ cpc' = [cpc EXCEPT ![c] = After(c)]
    /\ UNCHANGED <<host, ENDIANNESS, seqVars, cop, cargs, ci, cbuf, cacc,
                   cio, heap>>

\* PyMem_RawFree(buffer); return output;
Free(c) ==
    /\ Kind(c) = "free"
    /\ heap' = [heap EXCEPT ![cbuf[c]].owner = "free"]
    /\ cpc' = [cpc EXCEPT ![c] = After(c)]
    /\ UNCHANGED <<host, ENDIANNESS, seqVars, cop, cargs, ci, cbuf, cacc,
                   cret, cio>>

InitCalls == Init /\ memory

NextCalls ==
    \E c \in Calls :
        \/ Invoke(c)
        \/ Validate(c)
        \/ Malloc(c)
        \/ Fill(c)
        \/ Flip(c)
        \/ Read(c)
        \/ Direct(c)
        \/ Build(c)
        \/ Free(c)

SpecCalls == InitCalls /\ [][NextCalls]_vars

(* ------------------------------- claims -------------------------------- *)

\* the bounds of integer domain d: [-2^(8w-1), 2^(8w-1) - 1] when signed,
\* [0, 2^(8w) - 1] when unsigned
InRange(d, v) ==
    /\ v.type = "int"
    /\ IF d \in SignedDomains THEN FitsSigned(v, Width(d))
       ELSE FitsUnsigned(v, Width(d))

OtherHost == IF host = "little" THEN "big" ELSE "little"

\* C1: for every integer domain, in-range a and b and either probe result,
\* both encode to bytes and a < b iff encode(a) sorts before encode(b) as
\* unsigned bytes.
C1_OrderPreservedInt ==
    (pc = "encoded" /\ memory /\ dom \in IntDomains
        /\ InRange(dom, a) /\ InRange(dom, b))
    => /\ ea.type = "bytes" /\ eb.type = "bytes"
       /\ NumLess(a, b) <=> LexLess(ea.val, eb.val)

\* C2: for every integer domain, in-range x and either probe result, encode
\* returns bytes and decode(encode(x)) = x.
C2_RoundTripInt ==
    /\ (pc \in {"encoded", "decoded"} /\ memory /\ dom \in IntDomains
            /\ InRange(dom, a))
       => ea.type = "bytes"
    /\ (pc = "decoded" /\ dom \in IntDomains /\ InRange(dom, a)) => da = a

C2_Witness ==
    /\ pc = "decoded" /\ host = "big" /\ dom = "int64"
    /\ a = Neg(<<128, 0, 0, 0, 0, 0, 0, 0>>) /\ da = a

\* C3: encode returns the same bytes, and decode of the same bytes the same
\* value, whichever byte order the probe reported.
C3_HostIndependent ==
    /\ pc = "encoded" =>
        ea = Encode(dom, OtherHost, endianness_impl(OtherHost), memory, a)
    /\ pc = "rawdecoded" =>
        da = Decode(dom, OtherHost, endianness_impl(OtherHost), memory, a)

\* C4: for float32 and float64 and either probe result, a < b for values
\* that are not NaN implies encode(a) sorts before encode(b).
C4_OrderPreservedFloat ==
    (pc = "encoded" /\ memory /\ dom \in FloatDomains
        /\ a.type = "float" /\ b.type = "float" /\ FloatLess(a.val, b.val))
    => /\ ea.type = "bytes" /\ eb.type = "bytes"
       /\ LexLess(ea.val, eb.val)

C4_Witness ==
    /\ pc = "encoded" /\ host = "big" /\ dom = "float64"
    /\ a.type = "float" /\ b.type = "float"
    /\ SignBit(a.val) = 1 /\ SignBit(b.val) = 1
    /\ Exponent(a.val) = 1023 /\ Exponent(b.val) = 0 /\ ~IsZero(b.val)
    /\ FloatLess(a.val, b.val) /\ LexLess(ea.val, eb.val)

\* C5: two floats with different bit patterns, other than +0.0 and -0.0,
\* never encode to the same bytes.
C5_InjectiveFloat ==
    (pc = "encoded" /\ memory /\ dom \in FloatDomains
        /\ a.type = "float" /\ b.type = "float" /\ a.val # b.val
        /\ ~(IsZero(a.val) /\ IsZero(b.val)))
    => ea # eb

\* C6: for every float x, decode(encode(x)) has the bit pattern of x, except
\* that -0.0 decodes as +0.0.
C6_RoundTripFloat ==
    (pc = "decoded" /\ dom \in FloatDomains)
    => /\ da.type = "float"
       /\ IF IsZero(a.val) THEN IsZero(da.val) /\ SignBit(da.val) = 0
          ELSE da.val = a.val

C8_RangeRejected ==
    (pc = "encoded" /\ dom \in IntDomains /\ a.type = "int")
    => IF InRange(dom, a) THEN memory => ea.type = "bytes"
       ELSE ea = Raise("ValueError")

Exceptions == {"TypeError", "ValueError", "MemoryError"}

\* what the call returns when nothing else runs
Alone(c) ==
    IF cop[c].dir = "from"
    THEN Encode(cop[c].dom, host, ENDIANNESS, cbuf[c] # "NULL", cargs[c])
    ELSE Decode(cop[c].dom, host, ENDIANNESS, cbuf[c] # "NULL", cargs[c])

\* C9: a call is still validating only while it has no buffer and has copied
\* no byte; a TypeError or ValueError is raised in that state and returned at
\* once; a call that returned has either an exception or a complete result.
C9_FailFast ==
    \A c \in Calls :
        /\ Kind(c) \in {"parse", "range", "aslong", "length"}
           => cbuf[c] = "unset" /\ cio[c] = 0 /\ cret[c] = None
        /\ cret[c].type \in {"TypeError", "ValueError"}
           => cbuf[c] = "unset" /\ cio[c] = 0 /\ Returned(c)
        /\ Returned(c)
           => \/ cret[c].type \in Exceptions
              \/ /\ cop[c].dir = "from" /\ cret[c].type = "bytes"
                 /\ Len(cret[c].val) = Width(cop[c].dom)
                 /\ cio[c] = Width(cop[c].dom)
              \/ /\ cop[c].dir = "to" /\ cret[c].type \in {"int", "float"}
                 /\ cio[c] = Width(cop[c].dom)

C9_Witness ==
    /\ Returned("c1") /\ cop["c1"] = [dir |-> "to", dom |-> "uint32"]
    /\ cret["c1"] = Raise("ValueError")
    /\ cbuf["c1"] = "unset" /\ cio["c1"] = 0
    /\ Returned("c2") /\ cop["c2"] = [dir |-> "from", dom |-> "uint16"]
    /\ cret["c2"] = Raise("ValueError")

\* a step that changes a block is a step of the call that owns the block
WritesOwnBuffer ==
    \A k \in Blocks :
        heap'[k].data # heap[k].data
        => \E c \in Calls :
            /\ cpc'[c] # cpc[c] \/ ci'[c] # ci[c]
            /\ cbuf[c] = k /\ heap[k].owner = c

\* C10: however the statements of concurrent calls interleave, each call
\* returns what it returns alone, each step writes only the buffer of the call
\* that takes it, and no step changes ENDIANNESS.
C10_ConcurrentSafe ==
    /\ [](\A c \in Calls : Returned(c) => cret[c] = Alone(c))
    /\ [][WritesOwnBuffer /\ ENDIANNESS' = ENDIANNESS]_vars

C10_Witness ==
    /\ Kind("c1") = "fill" /\ ci["c1"] = 1
    /\ cop["c1"] = [dir |-> "from", dom |-> "int32"]
    /\ Kind("c2") = "read" /\ ci["c2"] = 1
    /\ cop["c2"] = [dir |-> "to", dom |-> "float64"]
    /\ cbuf["c1"] # cbuf["c2"]
    /\ heap[cbuf["c1"]].owner = "c1" /\ heap[cbuf["c2"]].owner = "c2"

\* C11: a call whose PyMem_RawMalloc returned NULL has returned, with
\* MemoryError and no value, and has copied no byte to or from the buffer; no
\* statement that touches the buffer is ever taken with buffer == NULL.
C11_AllocFailureReported ==
    \A c \in Calls :
        /\ cbuf[c] = "NULL"
           => Returned(c) /\ cret[c] = Raise("MemoryError") /\ cio[c] = 0
        /\ Kind(c) \in {"fill", "flip", "read", "build", "free"}
           => cbuf[c] \in Blocks

C11_Witness ==
    /\ cop["c1"] = [dir |-> "to", dom |-> "float32"]
    /\ cbuf["c1"] = "NULL" /\ Returned("c1")
    /\ cret["c1"] = Raise("MemoryError")
    /\ cop["c2"] = [dir |-> "from", dom |-> "int16"]
    /\ cbuf["c2"] = "NULL" /\ Returned("c2")

\* x - y for digit sequences of the same length with x >= y
RECURSIVE MagSub(_, _)
MagSub(x, y) ==
    IF x = <<>> THEN <<>>
    ELSE LET n == Len(x)
             hx == SubSeq(x, 1, n - 1)
             hy == SubSeq(y, 1, n - 1)
         IN  IF x[n] >= y[n]
             THEN Append(MagSub(hx, hy), x[n] - y[n])
             ELSE Append(MagSub(MagSub(hx, hy), Pad(<<1>>, n - 1)),
                         x[n] + 256 - y[n])

\* the w big-endian bytes of v + bias, bias = 2^(8w-1) for a signed domain
\* and 0 for an unsigned one
Biased(d, v) ==
    LET w == Width(d)
        half == <<128>> \o Zeros(w - 1)
        m == Pad(v.val, w)
    IN  IF d \notin SignedDomains THEN m
        ELSE IF v.neg THEN MagSub(half, m)
        ELSE [m EXCEPT ![1] = m[1] + 128]

\* C12: when the probe reports little-endian, encode of an in-range integer v
\* is the w-byte big-endian representation of v + bias.
C12_WireFormatInt ==
    (pc = "encoded" /\ memory /\ ENDIANNESS = 1 /\ dom \in IntDomains
        /\ InRange(dom, a))
    => ea = PyBytes(Biased(dom, a))

C12_Witness ==
    /\ pc = "encoded" /\ ENDIANNESS = 1 /\ dom = "int64"
    /\ a = Neg(<<1, 2, 3, 4, 5, 6, 7, 8>>)
    /\ ea = PyBytes(<<126, 253, 252, 251, 250, 249, 248, 248>>)

\* C13: with either result of the probe, to_<d> accepts every string of
\* Width(d) bytes and returns an integer inside the range of d, and from_<d>
\* of that integer is the string again.
C13_EveryKeyDecodes ==
    (pc \in {"rawdecoded", "reencoded"} /\ memory /\ dom \in IntDomains
        /\ a.type = "bytes" /\ Len(a.val) = Width(dom))
    => /\ da.type = "int" /\ InRange(dom, da)
       /\ pc = "reencoded" => ea = a

C13_Witness ==
    /\ pc = "reencoded" /\ ENDIANNESS = 0 /\ dom = "int32"
    /\ a = PyBytes(<<1, 2, 3, 4>>)
    /\ da.type = "int"
    /\ ea = PyBytes(<<1, 2, 3, 4>>)

====
